---- MODULE Spec2Model ----
(***************************************************************************)
(* Model of the greetd game-mode daemon: the lock-file singleton protocol  *)
(* of main.rs, the input loop of run_game_mode, the switch protocol of     *)
(* game_mode_switch.rs and the installer steps that touch the same files.  *)
(* Spec is the whole program; DaemonSpec is the daemon alone under fair    *)
(* scheduling; ReverterSpec is reset_config_after_delay, which the program *)
(* never calls, by itself; PathSpec is the PathManager of paths.rs;        *)
(* RestartSpec is the daemon started again after each exit; RevertRaceSpec *)
(* puts the reverter beside those restarts.                                *)
(*                                                                         *)
(* Files are modelled by their content class:                              *)
(*   "missing"  the file does not exist                                    *)
(*   "desktop"  a complete desktop (chooser) profile                       *)
(*   "game"     a complete copy of game_mode_login.toml                    *)
(*   "partial"  truncated / half written by a cp that has not finished     *)
(* Every privileged command (sudo ps, sudo kill, sudo cp, sudo systemctl)  *)
(* may fail to spawn (an Err in the code) or exit non-zero; both outcomes  *)
(* are inputs of the action that runs the command.                         *)
(***************************************************************************)
EXTENDS Naturals, FiniteSets, Sequences

\* Bounds of the model.
MaxProcs == 2       \* process instances ever started
MaxPress == 2       \* Mode presses delivered to one daemon

Pids == 1..MaxProcs

Modes == {"greetd", "install", "menu"}
MenuOptions == {"Install", "Uninstall", "Test Gamepad", "Exit"}
Buttons == {"Mode", "Other"}

VARIABLES
    proc,           \* the memory of each process instance, see Fresh
    hist,           \* history of each live process, read only by the properties
    cp,             \* the sudo cp child of each process: [dst, val]
    lockExists,     \* /etc/greetd/game-mode.lock exists
    lockPid,        \* its parsed content; 0 = empty or unparsable
    pointer,        \* /etc/greetd/config.toml
    backup,         \* /etc/greetd/config.toml.bak
    gameFile,       \* /etc/greetd/game_mode_login.toml exists
    stateFile,      \* game-mode-state.json (InstallationState)
    restarts,       \* successful restarts of the login service
    reverter,       \* the detached process of reset_config_after_delay
    child,          \* the first child of its double fork
    pm,             \* the PathManager of the loaded Config
    derived,        \* the paths its getters have returned: <<getter, path>>
    awaitingRevert  \* history: a switch has written the backup or the pointer
                    \* and nothing has restored the pointer since

fileVars == <<lockExists, lockPid, pointer, backup, gameFile, stateFile>>
sideVars == <<reverter, child, pm, derived>>
vars == <<proc, hist, cp, fileVars, restarts, sideVars, awaitingRevert>>

\* A std::path::PathBuf: absolute or relative, and its components.
\* PathBuf::from("") is the empty relative path, "/" the empty absolute one.
PathOf(abs, comps) == [abs |-> abs, comps |-> comps]

\* PathBuf::join: an absolute argument replaces the receiver, a relative one
\* is appended to it.
Join(base, path) ==
    IF path.abs THEN path ELSE PathOf(base.abs, base.comps \o path.comps)

\* A file name given as &str, as join takes it.
FileName(name) == PathOf(FALSE, <<name>>)

GREETD_DIR == PathOf(TRUE, <<"etc", "greetd">>)
CONFIG_FILE == "config.toml"
GAME_MODE_CONFIG == "game_mode_login.toml"

\* PathManager::new
NewPathManager(root, greetd_dir, config_file, game_mode_config) ==
    [root |-> root, greetd_dir |-> greetd_dir, config_file |-> config_file,
     game_mode_config |-> game_mode_config]

\* PathManager's getters
get_greetd_dir(m) == Join(m.root, m.greetd_dir)
get_config_path(m) == Join(get_greetd_dir(m), FileName(m.config_file))
get_default_config_path(m) == Join(get_greetd_dir(m), FileName("config_default.toml"))
get_game_mode_config_path(m) == Join(get_greetd_dir(m), FileName(m.game_mode_config))

\* Config::load: the path manager of the running program.
LoadedPathManager ==
    NewPathManager(PathOf(FALSE, <<>>), GREETD_DIR, CONFIG_FILE, GAME_MODE_CONFIG)

NoCp == [dst |-> "none", val |-> "missing"]

\* InstallationState::new(): config.rs Default
NewState == [installed |-> FALSE, backupListed |-> FALSE, modified |-> {}]

\* The memory of a process:
\*   pc                  position in main()
\*   mode                the command line (--greetd, --install, none)
\*   existing            existing_pid of kill_existing_processes; 0 = None
\*   running             the AtomicBool cleared by the ctrlc handler
\*   menu_pressed        run_game_mode's marker
\*   SWITCH_IN_PROGRESS  the static flag of game_mode_switch.rs
\*   held                the Mode button of the gamepad is down
\*   inst                Installer.state
Fresh ==
    [pc |-> "unborn", mode |-> "greetd", existing |-> 0, running |-> TRUE,
     menu_pressed |-> FALSE, SWITCH_IN_PROGRESS |-> FALSE, held |-> FALSE,
     inst |-> NewState]

\* A process that has ended: its memory is gone, its exit status remains.
Gone(status) == [Fresh EXCEPT !.pc = status]

\* History of a process:
\*   nPress      Mode presses delivered
\*   released    a Mode release was delivered
\*   attempts    calls of switch_to_game_mode
\*   switchRuns  runs of the switch protocol (past the flag check)
\*   gate        state of the session gates at the event that started it
\*   wrote       the process's switch has overwritten the pointer
\*   liveAtRead  the pid read from the lock named a live process
\*   probeRes    outcome of is_process_running
\*   killRes     outcome of sudo kill -9
\*   acqFailed   a command or file operation of lock acquisition failed
\*   lockErr     reading or creating the lock file failed
\*   lastStatus  exit status of the cp the switch protocol ran last ("none"
\*               when it ran none); the code drops it
NoHist ==
    [nPress |-> 0, released |-> FALSE, attempts |-> 0, switchRuns |-> 0,
     gate |-> "none", wrote |-> FALSE, liveAtRead |-> FALSE,
     probeRes |-> "none", killRes |-> "none", acqFailed |-> FALSE,
     lockErr |-> FALSE, lastStatus |-> "none"]

\* The process ends with the given status.
Exit(p, status) ==
    /\ proc' = [proc EXCEPT ![p] = Gone(status)]
    /\ hist' = [hist EXCEPT ![p] = NoHist]

\* The process table: a pid that `ps -p` finds.
Alive(q) == proc[q].pc \notin {"unborn", "exit0", "exit1", "killed"}

Init ==
    /\ proc = [p \in Pids |-> Fresh]
    /\ hist = [p \in Pids |-> NoHist]
    /\ cp = [p \in Pids |-> NoCp]
    /\ lockExists = FALSE
    /\ lockPid = 0
    /\ pointer \in {"missing", "desktop"}
    /\ backup = "missing"
    /\ gameFile \in BOOLEAN
    /\ stateFile = NewState
    /\ restarts = 0
    /\ reverter = "none"
    /\ child = "none"
    /\ pm = LoadedPathManager
    /\ derived = {}
    /\ awaitingRevert = FALSE

-----------------------------------------------------------------------------
(* main(): process start and lock acquisition (kill_existing_processes)     *)

\* main with the is_install() branch placed before kill_existing_processes:
\* an --install run goes to its mode without lock acquisition.
StartInstallFirst(p, m) ==
    /\ proc[p].pc = "unborn"
    /\ \A q \in Pids : q < p => proc[q].pc # "unborn"
    /\ proc' = [proc EXCEPT ![p].pc = IF m = "install" THEN "mode" ELSE "read_lock",
                            ![p].mode = m]
    /\ UNCHANGED <<hist, cp, fileVars, restarts, sideVars, awaitingRevert>>

\* A new process instance is started with command line m.
Start(p, m) ==
    /\ proc[p].pc = "unborn"
    /\ \A q \in Pids : q < p => proc[q].pc # "unborn"
    /\ proc' = [proc EXCEPT ![p].pc = "read_lock", ![p].mode = m]
    /\ UNCHANGED <<hist, cp, fileVars, restarts, sideVars, awaitingRevert>>

\* read_pid_from_lock_file: a missing or unparsable file is None.
ReadLock(p) ==
    /\ proc[p].pc = "read_lock"
    /\ LET pid == IF lockExists THEN lockPid ELSE 0 IN
        /\ proc' = [proc EXCEPT ![p].pc = "probe", ![p].existing = pid]
        /\ hist' = [hist EXCEPT ![p].liveAtRead = pid # 0 /\ pid # p /\ Alive(pid)]
    /\ UNCHANGED <<cp, fileVars, restarts, sideVars, awaitingRevert>>

\* fs::read_to_string fails: kill_existing_processes returns Err before the
\* write, main logs the error and goes on.
ReadLockFail(p) ==
    /\ proc[p].pc = "read_lock"
    /\ lockExists
    /\ proc' = [proc EXCEPT ![p].pc = "mode"]
    /\ hist' = [hist EXCEPT ![p].acqFailed = TRUE, ![p].lockErr = TRUE]
    /\ UNCHANGED <<cp, fileVars, restarts, sideVars, awaitingRevert>>

\* The kill condition with the probe's answer negated.
ShouldKillInverted(p, isRunning) ==
    proc[p].existing # 0 /\ proc[p].existing # p /\ ~isRunning

\* The kill condition without the liveness probe's answer.
ShouldKillUnprobed(p, isRunning) ==
    proc[p].existing # 0 /\ proc[p].existing # p

\* `existing_pid != current_pid && is_process_running(existing_pid)`
ShouldKill(p, isRunning) ==
    proc[p].existing # 0 /\ proc[p].existing # p /\ isRunning

\* is_process_running: `sudo ps -p pid`; a command that cannot run is false.
Probe(p) ==
    /\ proc[p].pc = "probe"
    /\ IF proc[p].existing \in {0, p}
       THEN /\ proc' = [proc EXCEPT ![p].pc = "write_lock"]
            /\ UNCHANGED hist
       ELSE \E cmdOk \in BOOLEAN :
              LET isRunning == cmdOk /\ Alive(proc[p].existing) IN
                /\ hist' = [hist EXCEPT ![p].probeRes =
                              IF ~cmdOk THEN "err"
                              ELSE IF isRunning THEN "running" ELSE "dead",
                                        ![p].acqFailed = @ \/ ~cmdOk]
                /\ proc' = [proc EXCEPT ![p].pc =
                              IF ShouldKill(p, isRunning) THEN "kill" ELSE "write_lock"]
    /\ UNCHANGED <<cp, fileVars, restarts, sideVars, awaitingRevert>>

\* sudo kill -9 with a failure of the command passed on as an Err, which ends
\* kill_existing_processes before the lock is written.
KillOrFail(p) ==
    /\ proc[p].pc = "kill"
    /\ \E cmdOk \in BOOLEAN :
         LET q == proc[p].existing
             hit == cmdOk /\ Alive(q) IN
           /\ proc' = [proc EXCEPT ![p].pc = IF cmdOk THEN "write_lock" ELSE "mode",
                                   ![q] = IF hit THEN Gone("killed") ELSE @]
           /\ hist' = [hist EXCEPT ![p].killRes = IF hit THEN "ok"
                                                  ELSE IF cmdOk THEN "gone" ELSE "err",
                                   ![p].acqFailed = @ \/ ~cmdOk,
                                   ![q] = IF hit THEN NoHist ELSE @]
    /\ UNCHANGED <<cp, fileVars, restarts, sideVars, awaitingRevert>>

\* sudo kill -9 existing_pid; every outcome is logged and acquisition goes on.
\* A running sudo cp child of the victim is not killed with it.
Kill(p) ==
    /\ proc[p].pc = "kill"
    /\ \E cmdOk \in BOOLEAN :
         LET q == proc[p].existing
             hit == cmdOk /\ Alive(q) IN
           /\ proc' = [proc EXCEPT ![p].pc = "write_lock",
                                   ![q] = IF hit THEN Gone("killed") ELSE @]
           /\ hist' = [hist EXCEPT ![p].killRes = IF hit THEN "ok"
                                                  ELSE IF cmdOk THEN "gone" ELSE "err",
                                   ![p].acqFailed = @ \/ ~cmdOk,
                                   ![q] = IF hit THEN NoHist ELSE @]
    /\ UNCHANGED <<cp, fileVars, restarts, sideVars, awaitingRevert>>

\* write_pid_to_lock_file, fs::File::create: truncates the lock file, or fails
\* (kill_existing_processes returns Err, main logs it and goes on).
CreateLock(p) ==
    /\ proc[p].pc = "write_lock"
    /\ \E ok \in BOOLEAN :
         IF ok
         THEN /\ lockExists' = TRUE
              /\ lockPid' = 0
              /\ proc' = [proc EXCEPT ![p].pc = "write_pid"]
              /\ UNCHANGED hist
         ELSE /\ proc' = [proc EXCEPT ![p].pc = "mode", ![p].existing = 0]
              /\ hist' = [hist EXCEPT ![p] = [NoHist EXCEPT !.acqFailed = TRUE,
                                                             !.lockErr = TRUE]]
              /\ UNCHANGED <<lockExists, lockPid>>
    /\ UNCHANGED <<cp, pointer, backup, gameFile, stateFile, restarts, sideVars,
                   awaitingRevert>>

\* write_pid_to_lock_file, file.write_all(pid); the chown's status is ignored.
\* kill_existing_processes returns: existing_pid goes out of scope.
WritePid(p) ==
    /\ proc[p].pc = "write_pid"
    /\ lockPid' = p
    /\ proc' = [proc EXCEPT ![p].pc = "mode", ![p].existing = 0]
    /\ hist' = [hist EXCEPT ![p] = [NoHist EXCEPT !.acqFailed = hist[p].acqFailed]]
    /\ UNCHANGED <<cp, lockExists, pointer, backup, gameFile, stateFile, restarts,
                   sideVars, awaitingRevert>>

-----------------------------------------------------------------------------
(* main(): mode selection, and the installer                                *)

\* Installer::new loads the state file, then --install uninstalls first when
\* the state says installed; --greetd enters run_game_mode.
SelectMode(p) ==
    /\ proc[p].pc = "mode"
    /\ proc[p].mode \in {"greetd", "install"}
    /\ proc' = IF proc[p].mode = "greetd"
               THEN [proc EXCEPT ![p].pc = "gamepad"]
               ELSE [proc EXCEPT ![p].inst = stateFile,
                                 ![p].pc = IF stateFile.installed
                                           THEN "uninstall" ELSE "install"]
    /\ UNCHANGED <<hist, cp, fileVars, restarts, sideVars, awaitingRevert>>

\* show_installer_menu: the selection, then Installer::new, then the match.
MenuSelect(p, sel) ==
    /\ proc[p].pc = "mode"
    /\ proc[p].mode = "menu"
    /\ CASE sel = "Install" ->
              /\ proc' = [proc EXCEPT ![p].inst = stateFile, ![p].pc = "install"]
              /\ UNCHANGED hist
         [] sel = "Uninstall" /\ stateFile.installed ->
              /\ proc' = [proc EXCEPT ![p].inst = stateFile, ![p].pc = "uninstall"]
              /\ UNCHANGED hist
         [] sel = "Test Gamepad" ->
              /\ proc' = [proc EXCEPT ![p].pc = "gamepad"]
              /\ UNCHANGED hist
         [] OTHER -> Exit(p, "exit0")
    /\ UNCHANGED <<cp, fileVars, restarts, sideVars, awaitingRevert>>

\* Installer::uninstall: remove the modified files, restore and remove the
\* listed backups, remove the state file.
Uninstall(p) ==
    /\ proc[p].pc = "uninstall"
    /\ LET st == proc[p].inst
           removed == IF "config" \in st.modified THEN "missing" ELSE pointer
           restore == st.backupListed /\ backup # "missing" IN
        /\ pointer' = IF restore THEN backup ELSE removed
        /\ backup' = IF restore THEN "missing" ELSE backup
        /\ awaitingRevert' = IF restore THEN FALSE ELSE awaitingRevert
        /\ gameFile' = IF "game" \in st.modified THEN FALSE ELSE gameFile
    /\ stateFile' = NewState
    /\ IF proc[p].mode = "install"
       THEN /\ proc' = [proc EXCEPT ![p].pc = "install"]
            /\ UNCHANGED hist
       ELSE Exit(p, "exit0")
    /\ UNCHANGED <<cp, lockExists, lockPid, restarts, sideVars>>

\* Installer::install, geteuid() != 0: "Installer must be run as root".
InstallNotRoot(p) ==
    /\ proc[p].pc = "install"
    /\ Exit(p, "exit1")
    /\ UNCHANGED <<cp, fileVars, restarts, sideVars, awaitingRevert>>

\* Installer::install up to "Backup existing greetd config": an existing
\* config.toml is copied to config.toml.bak and listed in the state.
InstallBackup(p) ==
    /\ proc[p].pc = "install"
    /\ IF pointer # "missing"
       THEN /\ backup' = pointer
            /\ proc' = [proc EXCEPT ![p].pc = "inst_copy",
                                    ![p].inst.backupListed = TRUE]
       ELSE /\ proc' = [proc EXCEPT ![p].pc = "inst_copy"]
            /\ UNCHANGED backup
    /\ UNCHANGED <<hist, cp, lockExists, lockPid, pointer, gameFile, stateFile,
                   restarts, sideVars, awaitingRevert>>

\* Installer::install from "Copy our config files": the files of ./greetd are
\* copied into the greetd directory (the game profile, and config.toml when
\* the directory ships one), then the binary; the state is saved at the end.
InstallCopy(p, outcome, shipsConfig) ==
    /\ proc[p].pc = "inst_copy"
    /\ IF outcome = "no_source"
       THEN /\ Exit(p, "exit1")
            /\ UNCHANGED <<pointer, gameFile, stateFile>>
       ELSE LET files == {"game"} \cup (IF shipsConfig THEN {"config"} ELSE {})
                st == [proc[p].inst EXCEPT !.modified = @ \cup files] IN
              /\ gameFile' = TRUE
              /\ pointer' = IF shipsConfig THEN "desktop" ELSE pointer
              /\ IF outcome = "no_binary"
                 THEN /\ Exit(p, "exit1")
                      /\ UNCHANGED stateFile
                 ELSE /\ stateFile' = [st EXCEPT !.installed = TRUE]
                      /\ Exit(p, "exit0")
    /\ UNCHANGED <<cp, lockExists, lockPid, backup, restarts, sideVars,
                   awaitingRevert>>

-----------------------------------------------------------------------------
(* run_game_mode: initialisation and the input loop                         *)

\* Gilrs::new and ctrlc::set_handler; either failing makes run_game_mode
\* return an Err.
RunGameModeInit(p, outcome) ==
    /\ proc[p].pc = "gamepad"
    /\ proc' = [proc EXCEPT ![p].pc = IF outcome = "ok" THEN "loop" ELSE "init_err"]
    /\ UNCHANGED <<hist, cp, fileVars, restarts, sideVars, awaitingRevert>>

\* The Err of run_game_mode logged and dropped, main returning Ok.
MainErrLogged(p) ==
    /\ proc[p].pc = "init_err"
    /\ Exit(p, "exit0")
    /\ UNCHANGED <<cp, fileVars, restarts, sideVars, awaitingRevert>>

\* `run_game_mode()?` in main (and in show_installer_menu, whose Err main
\* passes on with `?`): main returns the Err, the process exits with status 1.
MainErr(p) ==
    /\ proc[p].pc = "init_err"
    /\ Exit(p, "exit1")
    /\ UNCHANGED <<cp, fileVars, restarts, sideVars, awaitingRevert>>

\* The entry of switch_to_game_mode: the flag is set and the protocol starts.
\* `safe` is the state of the session gates at the moment of the event.
StartProtocol(p, safe) ==
    /\ proc' = [proc EXCEPT ![p].held = TRUE, ![p].menu_pressed = TRUE,
                            ![p].SWITCH_IN_PROGRESS = TRUE, ![p].pc = "sw_backup"]
    /\ hist' = [hist EXCEPT ![p].nPress = @ + 1, ![p].attempts = @ + 1,
                            ![p].switchRuns = @ + 1,
                            ![p].gate = IF safe THEN "safe" ELSE "unsafe"]

\* The ButtonPressed handler with its re-entry tests left out: every Mode
\* press starts the protocol again.
ButtonPressedRepeat(p, button, safe) ==
    /\ proc[p].pc = "loop"
    /\ button = "Mode" => ~proc[p].held /\ hist[p].nPress < MaxPress
    /\ IF button = "Mode"
       THEN StartProtocol(p, safe)
       ELSE UNCHANGED <<proc, hist>>
    /\ UNCHANGED <<cp, fileVars, restarts, sideVars, awaitingRevert>>

\* The handler of EventType::ButtonPressed, with the call of
\* switch_to_game_mode up to "Switch in progress flag set".  `safe` is the
\* state of the session gates (active terminal, greeter foreground, no
\* foreign session) at the moment of the event; the code does not read it.
ButtonPressed(p, button, safe) ==
    /\ proc[p].pc = "loop"
    /\ button = "Mode" => ~proc[p].held /\ hist[p].nPress < MaxPress
    /\ IF button = "Mode" /\ ~proc[p].menu_pressed
       THEN IF proc[p].SWITCH_IN_PROGRESS
            THEN /\ proc' = [proc EXCEPT ![p].held = TRUE, ![p].menu_pressed = TRUE]
                 /\ hist' = [hist EXCEPT ![p].nPress = @ + 1, ![p].attempts = @ + 1]
            ELSE StartProtocol(p, safe)
       ELSE IF button = "Mode"
            THEN /\ proc' = [proc EXCEPT ![p].held = TRUE]
                 /\ hist' = [hist EXCEPT ![p].nPress = @ + 1]
            ELSE UNCHANGED <<proc, hist>>
    /\ UNCHANGED <<cp, fileVars, restarts, sideVars, awaitingRevert>>

\* The release handler clearing the menu-pressed marker, as a debounce would.
ButtonReleasedClears(p, button) ==
    /\ proc[p].pc = "loop"
    /\ button = "Mode" => proc[p].held
    /\ IF button = "Mode"
       THEN /\ proc' = [proc EXCEPT ![p].held = FALSE, ![p].menu_pressed = FALSE]
            /\ hist' = [hist EXCEPT ![p].released = TRUE]
       ELSE UNCHANGED <<proc, hist>>
    /\ UNCHANGED <<cp, fileVars, restarts, sideVars, awaitingRevert>>

\* The handler of EventType::ButtonReleased: a log line.
ButtonReleased(p, button) ==
    /\ proc[p].pc = "loop"
    /\ button = "Mode" => proc[p].held
    /\ IF button = "Mode"
       THEN /\ proc' = [proc EXCEPT ![p].held = FALSE]
            /\ hist' = [hist EXCEPT ![p].released = TRUE]
       ELSE UNCHANGED <<proc, hist>>
    /\ UNCHANGED <<cp, fileVars, restarts, sideVars, awaitingRevert>>

\* The ctrlc handler: a shutdown signal clears the running flag.  The flag is
\* read only at the top of the loop, so a signal that arrives during a switch
\* step is taken here as arriving when the daemon is back in the loop.
ShutdownSignal(p) ==
    /\ proc[p].pc = "loop"
    /\ proc[p].running
    /\ proc' = [proc EXCEPT ![p].running = FALSE]
    /\ UNCHANGED <<hist, cp, fileVars, restarts, sideVars, awaitingRevert>>

\* The loop condition reading the static RUNNING of main.rs, which no
\* handler clears, instead of the handler's flag.
LoopExitOnStatic(p) ==
    /\ proc[p].pc = "loop"
    /\ ~TRUE
    /\ Exit(p, "exit0")
    /\ UNCHANGED <<cp, fileVars, restarts, sideVars, awaitingRevert>>

\* `while running.load()` fails: run_game_mode returns Ok, main returns Ok.
LoopExit(p) ==
    /\ proc[p].pc = "loop"
    /\ ~proc[p].running
    /\ Exit(p, "exit0")
    /\ UNCHANGED <<cp, fileVars, restarts, sideVars, awaitingRevert>>

-----------------------------------------------------------------------------
(* switch_to_game_mode, after the flag is set.  Each `Command::status()?`   *)
(* returns Err only when sudo cannot be spawned; the exit status of a       *)
(* command that ran is not inspected.                                       *)

CmdOutcomes == {"spawn_err", "refused", "started"}

\* "Backup current config": if config_path.exists(), sudo cp config -> backup.
\* cp creates or truncates the destination, then writes it.
SwitchBackup(p, outcome) ==
    /\ proc[p].pc = "sw_backup"
    /\ IF pointer = "missing"
       THEN /\ proc' = [proc EXCEPT ![p].pc = "sw_game"]
            /\ UNCHANGED hist
            /\ UNCHANGED <<backup, cp, awaitingRevert>>
       ELSE CASE outcome = "spawn_err" ->
                   /\ proc' = [proc EXCEPT ![p].pc = "loop"]
                   /\ UNCHANGED hist
                   /\ UNCHANGED <<backup, cp, awaitingRevert>>
              [] outcome = "refused" ->
                   /\ proc' = [proc EXCEPT ![p].pc = "sw_game"]
                   /\ hist' = [hist EXCEPT ![p].lastStatus = "failed"]
                   /\ UNCHANGED <<backup, cp, awaitingRevert>>
              [] OTHER ->
                   /\ backup' = "partial"
                   /\ cp' = [cp EXCEPT ![p] = [dst |-> "backup", val |-> pointer]]
                   /\ awaitingRevert' = TRUE
                   /\ proc' = [proc EXCEPT ![p].pc = "sw_backup_cp"]
                   /\ UNCHANGED hist
    /\ UNCHANGED <<lockExists, lockPid, pointer, gameFile, stateFile,
                   restarts, sideVars>>

\* The backup cp ends, completely (ok) or part way; the daemon, if it still
\* lives, goes on to the next step whatever the exit status.
BackupCopyDone(p, ok) ==
    /\ cp[p].dst = "backup"
    /\ backup' = IF ok THEN cp[p].val ELSE "partial"
    /\ cp' = [cp EXCEPT ![p] = NoCp]
    /\ proc' = [proc EXCEPT ![p].pc = IF @ = "sw_backup_cp" THEN "sw_game" ELSE @]
    /\ hist' = IF proc[p].pc = "sw_backup_cp"
               THEN [hist EXCEPT ![p].lastStatus = IF ok THEN "ok" ELSE "failed"]
               ELSE hist
    /\ UNCHANGED <<lockExists, lockPid, pointer, gameFile, stateFile,
                   restarts, sideVars, awaitingRevert>>

\* "Copy game mode config": sudo cp game_mode_login.toml -> config.toml.
SwitchGame(p, outcome) ==
    /\ proc[p].pc = "sw_game"
    /\ outcome = "started" => gameFile
    /\ CASE outcome = "spawn_err" ->
              /\ proc' = [proc EXCEPT ![p].pc = "loop"]
              /\ hist' = [hist EXCEPT ![p].lastStatus = "none"]
              /\ UNCHANGED <<pointer, cp, awaitingRevert>>
         [] outcome = "refused" ->
              /\ proc' = [proc EXCEPT ![p].pc = "sw_restart"]
              /\ hist' = [hist EXCEPT ![p].lastStatus = "failed"]
              /\ UNCHANGED <<pointer, cp, awaitingRevert>>
         [] OTHER ->
              /\ pointer' = "partial"
              /\ cp' = [cp EXCEPT ![p] = [dst |-> "pointer", val |-> "game"]]
              /\ hist' = [hist EXCEPT ![p].wrote = TRUE, ![p].lastStatus = "none"]
              /\ awaitingRevert' = TRUE
              /\ proc' = [proc EXCEPT ![p].pc = "sw_game_cp"]
    /\ UNCHANGED <<lockExists, lockPid, backup, gameFile, stateFile, restarts,
                   sideVars>>

\* The profile cp ends, completely (ok) or part way.
GameCopyDone(p, ok) ==
    /\ cp[p].dst = "pointer"
    /\ pointer' = IF ok THEN cp[p].val ELSE "partial"
    /\ cp' = [cp EXCEPT ![p] = NoCp]
    /\ proc' = [proc EXCEPT ![p].pc = IF @ = "sw_game_cp" THEN "sw_restart" ELSE @]
    /\ hist' = IF proc[p].pc = "sw_game_cp"
               THEN [hist EXCEPT ![p].lastStatus = IF ok THEN "ok" ELSE "failed"]
               ELSE hist
    /\ UNCHANGED <<lockExists, lockPid, backup, gameFile, stateFile,
                   restarts, sideVars, awaitingRevert>>

\* The restart step returning Ok(()) to the input loop where the code calls
\* std::process::exit(0).
SwitchRestartReturns(p, outcome) ==
    /\ proc[p].pc = "sw_restart"
    /\ proc' = [proc EXCEPT ![p].pc = "loop"]
    /\ hist' = [hist EXCEPT ![p].lastStatus = "none"]
    /\ restarts' = IF outcome = "started" THEN restarts + 1 ELSE restarts
    /\ UNCHANGED <<cp, fileVars, sideVars, awaitingRevert>>

\* "Restart greetd service", then std::process::exit(0).  The function makes
\* no call of reset_config_after_delay: no reverter is spawned.
SwitchRestart(p, outcome) ==
    /\ proc[p].pc = "sw_restart"
    /\ CASE outcome = "spawn_err" ->
              /\ proc' = [proc EXCEPT ![p].pc = "loop"]
              /\ hist' = [hist EXCEPT ![p].lastStatus = "none"]
              /\ UNCHANGED restarts
         [] outcome = "refused" ->
              /\ Exit(p, "exit0")
              /\ UNCHANGED restarts
         [] OTHER ->
              /\ Exit(p, "exit0")
              /\ restarts' = restarts + 1
    /\ UNCHANGED <<cp, fileVars, sideVars, awaitingRevert>>

-----------------------------------------------------------------------------

Next ==
    \E p \in Pids :
        \/ \E m \in Modes : Start(p, m)
        \/ ReadLock(p)
        \/ ReadLockFail(p)
        \/ Probe(p)
        \/ Kill(p)
        \/ CreateLock(p)
        \/ WritePid(p)
        \/ SelectMode(p)
        \/ \E sel \in MenuOptions : MenuSelect(p, sel)
        \/ Uninstall(p)
        \/ InstallNotRoot(p)
        \/ InstallBackup(p)
        \/ \E o \in {"no_source", "no_binary", "ok"}, c \in BOOLEAN : InstallCopy(p, o, c)
        \/ \E o \in {"ok", "gilrs_err", "handler_err"} : RunGameModeInit(p, o)
        \/ MainErr(p)
        \/ \E b \in Buttons, safe \in BOOLEAN : ButtonPressed(p, b, safe)
        \/ \E b \in Buttons : ButtonReleased(p, b)
        \/ ShutdownSignal(p)
        \/ LoopExit(p)
        \/ \E o \in CmdOutcomes : SwitchBackup(p, o)
        \/ \E ok \in BOOLEAN : BackupCopyDone(p, ok)
        \/ \E o \in CmdOutcomes : SwitchGame(p, o)
        \/ \E ok \in BOOLEAN : GameCopyDone(p, ok)
        \/ \E o \in CmdOutcomes : SwitchRestart(p, o)

Spec == Init /\ [][Next]_vars

-----------------------------------------------------------------------------
(* The daemon alone (every instance started by greetd), with the scheduling *)
(* its code relies on: a started process runs on, the input loop polls     *)
(* every 10 ms, and a command that was run ends.  The inputs (process      *)
(* starts, gamepad events, signals) may stay away.                          *)

DaemonNext ==
    \E p \in Pids :
        \/ Start(p, "greetd")
        \/ ReadLock(p)
        \/ ReadLockFail(p)
        \/ Probe(p)
        \/ Kill(p)
        \/ CreateLock(p)
        \/ WritePid(p)
        \/ SelectMode(p)
        \/ \E o \in {"ok", "gilrs_err", "handler_err"} : RunGameModeInit(p, o)
        \/ MainErr(p)
        \/ \E b \in Buttons, safe \in BOOLEAN : ButtonPressed(p, b, safe)
        \/ \E b \in Buttons : ButtonReleased(p, b)
        \/ ShutdownSignal(p)
        \/ LoopExit(p)
        \/ \E o \in CmdOutcomes : SwitchBackup(p, o)
        \/ \E ok \in BOOLEAN : BackupCopyDone(p, ok)
        \/ \E o \in CmdOutcomes : SwitchGame(p, o)
        \/ \E ok \in BOOLEAN : GameCopyDone(p, ok)
        \/ \E o \in CmdOutcomes : SwitchRestart(p, o)

\* The steps a daemon takes by itself, lock acquisition to the end.
DaemonProgress(p) ==
    \/ ReadLock(p)
    \/ Probe(p)
    \/ Kill(p)
    \/ CreateLock(p)
    \/ WritePid(p)
    \/ SelectMode(p)
    \/ \E o \in {"ok", "gilrs_err", "handler_err"} : RunGameModeInit(p, o)
    \/ MainErr(p)
    \/ LoopExit(p)
    \/ \E o \in CmdOutcomes : SwitchBackup(p, o)
    \/ \E ok \in BOOLEAN : BackupCopyDone(p, ok)
    \/ \E o \in CmdOutcomes : SwitchGame(p, o)
    \/ \E ok \in BOOLEAN : GameCopyDone(p, ok)
    \/ \E o \in CmdOutcomes : SwitchRestart(p, o)

DaemonSpec ==
    Init /\ [][DaemonNext]_vars /\ \A p \in Pids : WF_vars(DaemonProgress(p))

-----------------------------------------------------------------------------
(* Daemon restarts in sequence: the login service starts a daemon only when *)
(* no earlier instance and no command of one is running, as after the       *)
(* restart that ends a switch.  Every behaviour of RestartSpec is one of    *)
(* Spec.                                                                    *)

StartAfter(p) ==
    /\ \A q \in Pids : ~Alive(q) /\ cp[q].dst = "none"
    /\ Start(p, "greetd")

RestartNext ==
    \E p \in Pids :
        \/ StartAfter(p)
        \/ ReadLock(p)
        \/ ReadLockFail(p)
        \/ Probe(p)
        \/ CreateLock(p)
        \/ WritePid(p)
        \/ SelectMode(p)
        \/ \E o \in {"ok", "gilrs_err", "handler_err"} : RunGameModeInit(p, o)
        \/ MainErr(p)
        \/ \E b \in Buttons, safe \in BOOLEAN : ButtonPressed(p, b, safe)
        \/ \E b \in Buttons : ButtonReleased(p, b)
        \/ ShutdownSignal(p)
        \/ LoopExit(p)
        \/ \E o \in CmdOutcomes : SwitchBackup(p, o)
        \/ \E ok \in BOOLEAN : BackupCopyDone(p, ok)
        \/ \E o \in CmdOutcomes : SwitchGame(p, o)
        \/ \E ok \in BOOLEAN : GameCopyDone(p, ok)
        \/ \E o \in CmdOutcomes : SwitchRestart(p, o)

RestartSpec == Init /\ [][RestartNext]_vars

-----------------------------------------------------------------------------
(* reset_config_after_delay.  No function of the program calls it; it is    *)
(* modelled by itself, called by a daemon process with the pointer and the  *)
(* backup in any state.                                                     *)
(*   child     the first child: "none", "forked", "exit0", "exit1", "reaped" *)
(*   reverter  the second child: "none", "started", "sleeping", "restore",  *)
(*             "restore_cp", "remove", "exit0", "exit1"                     *)

FileStates == {"missing", "desktop", "game", "partial"}

\* A daemon process p is about to call reset_config_after_delay(config_path,
\* backup_path, delay_secs).
ReverterInit ==
    /\ \E c \in Pids :
         /\ proc = [p \in Pids |->
                      IF p = c THEN [Fresh EXCEPT !.pc = "reset_call"] ELSE Fresh]
         /\ lockPid = c
    /\ hist = [p \in Pids |-> NoHist]
    /\ cp = [p \in Pids |-> NoCp]
    /\ lockExists = TRUE
    /\ pointer \in FileStates
    /\ backup \in FileStates
    /\ gameFile = TRUE
    /\ stateFile = NewState
    /\ restarts = 0
    /\ reverter = "none"
    /\ child = "none"
    /\ pm = LoadedPathManager
    /\ derived = {}
    /\ awaitingRevert = (backup # "missing")

\* The first libc::fork(); pid < 0 ends the calling process with status 1.
ForkFirst(p, ok) ==
    /\ proc[p].pc = "reset_call"
    /\ IF ok
       THEN /\ proc' = [proc EXCEPT ![p].pc = "reset_wait"]
            /\ child' = "forked"
            /\ UNCHANGED hist
       ELSE /\ Exit(p, "exit1")
            /\ UNCHANGED child
    /\ UNCHANGED <<cp, fileVars, restarts, reverter, pm, derived, awaitingRevert>>

\* The second fork, in the first child, which then exits: with 0 when the
\* fork succeeded, with 1 when pid2 < 0.
ForkSecond(ok) ==
    /\ child = "forked"
    /\ child' = IF ok THEN "exit0" ELSE "exit1"
    /\ reverter' = IF ok THEN "started" ELSE reverter
    /\ UNCHANGED <<proc, hist, cp, fileVars, restarts, pm, derived, awaitingRevert>>

\* The second child closes its file descriptors, calls setsid and sleeps.
Detach ==
    /\ reverter = "started"
    /\ reverter' = "sleeping"
    /\ UNCHANGED <<proc, hist, cp, fileVars, restarts, child, pm, derived,
                   awaitingRevert>>

\* The parent waiting for the detached process itself.
WaitDetached(p) ==
    /\ proc[p].pc = "reset_wait"
    /\ reverter \in {"exit0", "exit1"}
    /\ proc' = [proc EXCEPT ![p].pc = "reset_done"]
    /\ UNCHANGED <<hist, cp, fileVars, restarts, sideVars, awaitingRevert>>

\* "Parent waits for first child": waitpid returns, the function returns.
WaitFirstChild(p) ==
    /\ proc[p].pc = "reset_wait"
    /\ child \in {"exit0", "exit1"}
    /\ proc' = [proc EXCEPT ![p].pc = "reset_done"]
    /\ child' = "reaped"
    /\ UNCHANGED <<hist, cp, fileVars, restarts, reverter, pm, derived,
                   awaitingRevert>>

\* The calling daemon ends: it exits after the call has returned, or it
\* crashes or is killed (sudo kill -9 of its pid by a newer instance) at any
\* moment after the fork.
CallerEnds(p, how) ==
    /\ proc[p].pc \in {"reset_wait", "reset_done"}
    /\ how = "exit0" => proc[p].pc = "reset_done"
    /\ proc' = [proc EXCEPT ![p] = Gone(how)]
    /\ UNCHANGED <<hist, cp, fileVars, restarts, sideVars, awaitingRevert>>

\* The sleep ends without the test of backup_path.exists().
WakeUnchecked ==
    /\ reverter = "sleeping"
    /\ reverter' = "restore"
    /\ UNCHANGED <<proc, hist, cp, fileVars, restarts, child, pm, derived,
                   awaitingRevert>>

\* The sleep ends: `if backup_path.exists()`, else warn and exit(1).
Wake ==
    /\ reverter = "sleeping"
    /\ reverter' = IF backup # "missing" THEN "restore" ELSE "exit1"
    /\ UNCHANGED <<proc, hist, cp, fileVars, restarts, child, pm, derived,
                   awaitingRevert>>

\* sudo cp backup -> config: an Err or a non-zero status without a write is
\* exit(1); else cp truncates the pointer and writes it.
RestoreCopy(outcome) ==
    /\ reverter = "restore"
    /\ outcome = "started" => backup # "missing"
    /\ IF outcome = "started"
       THEN /\ pointer' = "partial"
            /\ reverter' = "restore_cp"
       ELSE /\ reverter' = "exit1"
            /\ UNCHANGED pointer
    /\ UNCHANGED <<proc, hist, cp, lockExists, lockPid, backup, gameFile,
                   stateFile, restarts, child, pm, derived, awaitingRevert>>

\* The restoring cp ends: status.success() goes on to the rm, a cp that
\* failed part way is exit(1).
RestoreCopyDone(ok) ==
    /\ reverter = "restore_cp"
    /\ pointer' = IF ok THEN backup ELSE "partial"
    /\ reverter' = IF ok THEN "remove" ELSE "exit1"
    /\ UNCHANGED <<proc, hist, cp, lockExists, lockPid, backup, gameFile,
                   stateFile, restarts, child, pm, derived, awaitingRevert>>

\* sudo rm backup: on success exit(0), on an Err or a non-zero status
\* exit(1).  The function runs no other command.
RemoveBackup(outcome) ==
    /\ reverter = "remove"
    /\ IF outcome = "started"
       THEN /\ backup' = "missing"
            /\ awaitingRevert' = FALSE
            /\ reverter' = "exit0"
       ELSE /\ reverter' = "exit1"
            /\ UNCHANGED <<backup, awaitingRevert>>
    /\ UNCHANGED <<proc, hist, cp, lockExists, lockPid, pointer, gameFile,
                   stateFile, restarts, child, pm, derived>>

ReverterNext ==
    \/ \E p \in Pids, ok \in BOOLEAN : ForkFirst(p, ok)
    \/ \E ok \in BOOLEAN : ForkSecond(ok)
    \/ Detach
    \/ \E p \in Pids : WaitFirstChild(p)
    \/ \E p \in Pids, how \in {"exit0", "exit1", "killed"} : CallerEnds(p, how)
    \/ Wake
    \/ \E o \in CmdOutcomes : RestoreCopy(o)
    \/ \E ok \in BOOLEAN : RestoreCopyDone(ok)
    \/ \E o \in CmdOutcomes : RemoveBackup(o)

ReverterSpec == ReverterInit /\ [][ReverterNext]_vars

-----------------------------------------------------------------------------
(* The reverter beside the daemon's restarts: a daemon calls                *)
(* reset_config_after_delay and ends, the login service starts the next     *)
(* daemon, and the detached process wakes at any moment.  The call itself   *)
(* is the one step here that the program's code does not contain.           *)

RevertRaceNext == RestartNext \/ ReverterNext

RevertRaceSpec == ReverterInit /\ [][RevertRaceNext]_vars

-----------------------------------------------------------------------------
(* PathManager by itself: a manager built from any root, directory and file *)
(* names of the sets below, and its four getters called in any order.       *)

\* "" (Config::load), "/" and "/tmp/test" (the roots of the module's tests)
Roots == {PathOf(FALSE, <<>>), PathOf(TRUE, <<>>), PathOf(TRUE, <<"tmp", "test">>)}

\* "/etc/greetd", "etc/greetd", "greetd"
Dirs == {GREETD_DIR, PathOf(FALSE, <<"etc", "greetd">>), PathOf(FALSE, <<"greetd">>)}

ConfigNames == {CONFIG_FILE, "greetd.toml"}
GameNames == {GAME_MODE_CONFIG, "game.toml"}

PathInit ==
    /\ proc = [p \in Pids |-> Fresh]
    /\ hist = [p \in Pids |-> NoHist]
    /\ cp = [p \in Pids |-> NoCp]
    /\ lockExists = FALSE
    /\ lockPid = 0
    /\ pointer = "desktop"
    /\ backup = "missing"
    /\ gameFile = TRUE
    /\ stateFile = NewState
    /\ restarts = 0
    /\ reverter = "none"
    /\ child = "none"
    /\ pm \in {NewPathManager(r, d, c, g) :
                  r \in Roots, d \in Dirs, c \in ConfigNames, g \in GameNames}
    /\ derived = {}
    /\ awaitingRevert = FALSE

\* A getter that has not been called yet is called and its result kept.
Called(getter) == \E e \in derived : e[1] = getter

Returns(getter, path) ==
    /\ ~Called(getter)
    /\ derived' = derived \cup {<<getter, path>>}
    /\ UNCHANGED <<proc, hist, cp, fileVars, restarts, reverter, child, pm,
                   awaitingRevert>>

GetGreetdDir == Returns("get_greetd_dir", get_greetd_dir(pm))
GetConfigPath == Returns("get_config_path", get_config_path(pm))
GetDefaultConfigPath == Returns("get_default_config_path", get_default_config_path(pm))
GetGameModeConfigPath == Returns("get_game_mode_config_path", get_game_mode_config_path(pm))

PathNext ==
    \/ GetGreetdDir
    \/ GetConfigPath
    \/ GetDefaultConfigPath
    \/ GetGameModeConfigPath

PathSpec == PathInit /\ [][PathNext]_vars

-----------------------------------------------------------------------------
(* Properties                                                               *)

\* The positions of a daemon inside the input loop, switch logic armed.
InLoop == {"loop", "sw_backup", "sw_backup_cp", "sw_game", "sw_game_cp", "sw_restart"}

\* A Mode press is delivered to p in this step.
PressArrives(p) == hist'[p].nPress = hist[p].nPress + 1

\* C1 -- Single-writer safety: whatever Mode-button events one daemon process
\* receives, it starts the switch protocol at most once, and a press that
\* arrives while SWITCH_IN_PROGRESS is true leaves the pointer, the backup,
\* the service and the copy children untouched and the daemon in its loop.
C1_SingleWriter ==
    [][\A p \in Pids :
          /\ hist'[p].switchRuns <= 1
          /\ (PressArrives(p) /\ proc[p].SWITCH_IN_PROGRESS) =>
                /\ proc'[p].pc = proc[p].pc
                /\ UNCHANGED <<pointer, backup, restarts, cp>>]_vars

\* A second Mode press has been handled by a daemon whose one protocol run
\* failed and left the flag set.
C1_Witness ==
    \E p \in Pids :
        /\ proc[p].pc = "loop"
        /\ proc[p].SWITCH_IN_PROGRESS
        /\ hist[p].nPress = 2
        /\ hist[p].switchRuns = 1

\* C2 -- Fail-closed gating: a switch overwrites the pointer only if the
\* session gates were all safe at the moment of the Mode-button event.
C2_FailClosedGating ==
    \A p \in Pids : hist[p].wrote => hist[p].gate = "safe"

\* C3 -- Debounce: without a Mode release there is no switch attempt, and a
\* released press has produced one.
C3_Debounce ==
    \A p \in Pids :
        /\ ~hist[p].released => hist[p].attempts = 0
        /\ (hist[p].released /\ proc[p].pc \in InLoop) => hist[p].attempts >= 1

\* C4 -- Backup/restore round trip: a switch protocol that has put the game
\* profile in the pointer and the desktop profile in the backup has, when it
\* ends, scheduled a detached reverter.
C4_RoundTrip ==
    [][\A p \in Pids :
          (proc[p].pc = "sw_restart" /\ proc'[p].pc = "exit0"
              /\ pointer = "game" /\ backup = "desktop") =>
              reverter' # "none"]_vars

\* Lock acquisition of p completes its lock write in this step.
AcquisitionCompletes(p) == proc[p].pc = "write_pid" /\ proc'[p].pc = "mode"

\* q is not in the process table after this step.
Terminated(q) == proc'[q].pc \in {"exit0", "exit1", "killed"}

\* C5 (as amended) -- Singleton takeover: when the pid read from the lock
\* named a different, live process and neither the liveness probe nor the
\* kill command failed, then at the moment acquisition completes its lock
\* write that process is no longer alive and the lock holds the new pid.
C5_TakeoverWhenCommandsSucceed ==
    [][\A p \in Pids :
          AcquisitionCompletes(p) =>
              /\ lockExists' /\ lockPid' = p
              /\ (hist[p].liveAtRead /\ hist[p].probeRes # "err"
                                     /\ hist[p].killRes # "err") =>
                    Terminated(proc[p].existing)]_vars

\* An instance holds the lock after killing the earlier one.
C5_Witness ==
    \E p, q \in Pids :
        /\ p # q
        /\ proc[q].pc = "killed"
        /\ proc[p].pc = "mode"
        /\ lockExists /\ lockPid = p

\* C5 (as claimed) -- every acquisition that read the pid of a different,
\* live process has, when it completes its lock write, terminated that
\* process and left the lock holding the new pid.
C5_Takeover ==
    [][\A p \in Pids :
          (AcquisitionCompletes(p) /\ hist[p].liveAtRead) =>
              /\ lockExists' /\ lockPid' = p
              /\ Terminated(proc[p].existing)]_vars

\* C6 -- Exactly one authoritative daemon: two instances whose lock
\* acquisitions met no failing command are never both in the input loop.
C6_OneAuthoritative ==
    \A p, q \in Pids :
        (p # q /\ proc[p].pc \in InLoop /\ proc[q].pc \in InLoop) =>
            (hist[p].acqFailed \/ hist[q].acqFailed)

\* C7 -- Startup convergence: while a daemon is in its input loop and no
\* live daemon has started a switch, the pointer does not hold the game
\* profile (the claim's case "game profile": it has been reset to desktop).
C7_StartupConvergence ==
    \A p \in Pids :
        (proc[p].pc = "loop" /\ \A q \in Pids : hist[q].switchRuns = 0) =>
            pointer # "game"

\* C8 -- Backup invariant: the backup file exists exactly when a switch has
\* been made and awaits its revert.
C8_BackupInvariant == (backup # "missing") <=> awaitingRevert

\* C9 -- At most one switch pending revert: a daemon that is the only live
\* process starts no switch protocol while an earlier switch is unreverted
\* (the pointer holds the game profile) and its backup file exists.
C9_OnePendingRevert ==
    [][\A p \in Pids :
          (hist'[p].switchRuns > hist[p].switchRuns
              /\ \A q \in Pids \ {p} : ~Alive(q)) =>
              ~(awaitingRevert /\ pointer = "game" /\ backup = "desktop")]_vars

\* C10 -- Pointer integrity: the pointer file is never partially written.
C10_PointerIntegrity == pointer # "partial"

\* p takes a step of its own (or is killed) from position at.
Leaves(p, at) == proc[p].pc = at /\ proc'[p].pc # at

\* The lock acquisition of p met no failing command or file operation.
CleanStart(p) == ~hist[p].acqFailed

\* C11 -- No switch without a safety copy: when the backup copy of an existing
\* pointer has failed, the switch fails: the step the daemon takes next does
\* not touch the pointer and does not go on with the protocol.
C11_NoSwitchWithoutBackup ==
    [][\A p \in Pids :
          (Leaves(p, "sw_game") /\ hist[p].lastStatus = "failed"
              /\ CleanStart(p)) =>
              /\ pointer' = pointer
              /\ proc'[p].pc \notin {"sw_game_cp", "sw_restart"}]_vars

\* C12 -- Switch-step errors abort the remainder: when the copy of the game
\* profile over the pointer has failed, the step the daemon takes next
\* neither restarts the login service nor exits with status 0.
C12_ErrorsAbort ==
    [][\A p \in Pids :
          (Leaves(p, "sw_restart") /\ hist[p].lastStatus = "failed"
              /\ CleanStart(p)) =>
              /\ restarts' = restarts
              /\ proc'[p].pc # "exit0"]_vars

\* C13 -- Lock acquisition failure is fatal: a process whose read or write of
\* the lock record failed never is in the input loop.
C13_LockFailureFatal ==
    \A p \in Pids : hist[p].lockErr => proc[p].pc \notin InLoop

\* C14 -- Fatal-at-startup errors: when the initialisation of run_game_mode
\* has failed, the failing step and the step the process takes next leave the
\* pointer and the backup as they are, the process ends with status 1 without
\* entering the input loop, and an ended process stays ended (no retry).
C14_FatalAtStartup ==
    [][\A p \in Pids :
          /\ (proc[p].pc = "gamepad" /\ proc'[p].pc = "init_err") =>
                UNCHANGED <<pointer, backup>>
          /\ Leaves(p, "init_err") =>
                /\ proc'[p].pc \in {"exit1", "killed"}
                /\ UNCHANGED <<pointer, backup>>
          /\ proc[p].pc = "exit1" => proc'[p].pc = "exit1"]_vars

\* The initialisation of run_game_mode has failed in a daemon started by
\* greetd, and the daemon has not ended yet.
C14_Witness ==
    \E p \in Pids : proc[p].pc = "init_err" /\ proc[p].mode = "greetd"

\* C20 -- Backup-then-overwrite ordering: when a switch begins to overwrite an
\* existing pointer, its backup copy has completed and the backup holds the
\* content the pointer is about to lose.
C20_BackupBeforeOverwrite ==
    [][\A p \in Pids :
          (proc[p].pc = "sw_game" /\ proc'[p].pc = "sw_game_cp"
              /\ pointer # "missing" /\ CleanStart(p)) =>
              /\ cp[p].dst = "none"
              /\ backup = pointer]_vars

\* A shutdown signal has been delivered to daemon p in its input loop.
Signalled(p) == proc[p].pc = "loop" /\ ~proc[p].running

\* C15 (as amended) -- Graceful shutdown: a daemon in its input loop whose
\* running flag a shutdown signal has cleared eventually ends, with exit
\* status 0 unless the takeover of a newer instance kills it first.
C15_ShutdownUnlessKilled ==
    \A p \in Pids : Signalled(p) ~> (proc[p].pc \in {"exit0", "killed"})

\* A daemon is in its input loop with the running flag cleared.
C15_Witness == \E p \in Pids : Signalled(p)

\* C15 (as claimed) -- a daemon in its input loop whose running flag a
\* shutdown signal has cleared eventually ends with exit status 0.
C15_GracefulShutdown ==
    \A p \in Pids : Signalled(p) ~> (proc[p].pc = "exit0")

\* C16 -- Reverter independence: a step in which the calling daemon ends
\* (exit, crash or kill) leaves the detached process and the first child as
\* they are; a sleeping reverter can always wake; and the calling daemon,
\* once the reverter exists, can return from the call without waiting for it.
C16_ReverterIndependence ==
    /\ [][\A p \in Pids :
            (Alive(p) /\ ~Alive(p)') => (reverter' = reverter /\ child' = child)]_vars
    /\ [](reverter = "sleeping" => ENABLED Wake)
    /\ [](\A p \in Pids :
            (proc[p].pc = "reset_wait" /\ reverter # "none") =>
                ENABLED WaitFirstChild(p))

\* The daemon that spawned the reverter has been killed while the reverter
\* sleeps.
C16_Witness ==
    \E p \in Pids : proc[p].pc = "killed" /\ reverter = "sleeping"

\* C17 -- Revert steps and order: a reverter that has exited with success
\* has restarted the login service.
C17_RevertRestarts == reverter = "exit0" => restarts >= 1

\* C18 -- Missing backup at wake time: a reverter that wakes without a backup
\* file ends with status 1 in that step, the pointer, the backup and the
\* service untouched; a reverter that has failed stays ended and touches
\* nothing after.
C18_MissingBackup ==
    [][/\ (reverter = "sleeping" /\ reverter' # "sleeping" /\ backup = "missing") =>
             /\ reverter' = "exit1"
             /\ UNCHANGED <<pointer, backup, restarts>>
       /\ reverter = "exit1" =>
             /\ reverter' = "exit1"
             /\ UNCHANGED <<pointer, backup, restarts>>]_vars

\* A reverter has woken without a backup file and has ended with failure.
C18_Witness == reverter = "exit1" /\ backup = "missing"

\* The directory dir placed beneath root, as the tests of paths.rs expect it:
\* "/etc/greetd" beneath "/" is "/etc/greetd", beneath "/tmp/test" it is
\* "/tmp/test/etc/greetd".
Beneath(root, dir) ==
    PathOf(root.abs \/ (root.comps = <<>> /\ dir.abs), root.comps \o dir.comps)

\* The file called name in directory dir.
FileIn(dir, name) == PathOf(dir.abs, dir.comps \o <<name>>)

\* C19 -- Path derivation under a root: get_greetd_dir returns the greetd
\* directory placed beneath the root, and the three other getters return the
\* config file name, config_default.toml and the game-mode config file name
\* in that directory.
C19_PathDerivation ==
    LET dir == Beneath(pm.root, pm.greetd_dir) IN
      \A e \in derived :
          /\ e[1] = "get_greetd_dir" => e[2] = dir
          /\ e[1] = "get_config_path" => e[2] = FileIn(dir, pm.config_file)
          /\ e[1] = "get_default_config_path" =>
                e[2] = FileIn(dir, "config_default.toml")
          /\ e[1] = "get_game_mode_config_path" =>
                e[2] = FileIn(dir, pm.game_mode_config)

\* The positions of the switch protocol before its restart step.
BeforeRestart == {"sw_backup", "sw_backup_cp", "sw_game", "sw_game_cp"}

\* C21 -- Fire-and-exit: a daemon whose backup and profile copies succeeded
\* and whose restart command has restarted the service ends in that step with
\* exit status 0; no step of the protocol before the restart step ends the
\* daemon with status 0; and a process that has exited stays exited: it
\* handles no further event.
C21_FireAndExit ==
    [][\A p \in Pids :
          /\ (Leaves(p, "sw_restart") /\ restarts' = restarts + 1) =>
                proc'[p].pc = "exit0"
          /\ proc[p].pc \in BeforeRestart => proc'[p].pc # "exit0"
          /\ proc[p].pc = "exit0" =>
                (proc'[p].pc = "exit0" /\ hist'[p] = hist[p])]_vars

\* A daemon has exited with status 0 after a switch that left the game
\* profile in the pointer, the desktop profile in the backup and the service
\* restarted.
C21_Witness ==
    /\ restarts >= 1 /\ pointer = "game" /\ backup = "desktop"
    /\ \E p \in Pids : proc[p].pc = "exit0"

\* C22 -- Best-effort takeover: the kill step of lock acquisition never ends
\* the acquisition, whatever the outcome of the kill command; an acquisition
\* whose kill failed and that completes its lock write leaves the lock
\* holding the new pid.
C22_BestEffortTakeover ==
    [][\A p \in Pids :
          /\ Leaves(p, "kill") => proc'[p].pc \in {"write_lock", "killed"}
          /\ (AcquisitionCompletes(p) /\ hist[p].killRes = "err") =>
                (lockExists' /\ lockPid' = p)]_vars

\* An instance whose kill command failed is about to write its pid into the
\* lock while the instance it meant to kill is alive in its input loop.
C22_Witness ==
    \E p \in Pids :
        /\ proc[p].pc = "write_pid"
        /\ hist[p].killRes = "err"
        /\ proc[p].existing # 0
        /\ proc[proc[p].existing].pc \in InLoop

\* C25 -- One switch attempt per process lifetime: while a process lives its
\* menu-pressed marker and its SWITCH_IN_PROGRESS flag, once set, stay set;
\* and a Mode press after the first one causes no call of
\* switch_to_game_mode, leaves the daemon in its loop and changes neither
\* the pointer, the backup, the service nor a copy child.
C25_OneAttempt ==
    [][\A p \in Pids :
          /\ (proc[p].menu_pressed /\ Alive(p)') => proc'[p].menu_pressed
          /\ (proc[p].SWITCH_IN_PROGRESS /\ Alive(p)') => proc'[p].SWITCH_IN_PROGRESS
          /\ (PressArrives(p) /\ hist[p].nPress >= 1) =>
                /\ hist'[p].attempts = hist[p].attempts
                /\ proc'[p].pc = proc[p].pc
                /\ UNCHANGED <<pointer, backup, restarts, cp>>]_vars

\* A daemon whose one switch attempt returned an error has handled a release
\* and a second Mode press without a second attempt.
C25_Witness ==
    \E p \in Pids :
        /\ proc[p].pc = "loop"
        /\ proc[p].menu_pressed
        /\ hist[p].released
        /\ hist[p].nPress = 2
        /\ hist[p].attempts = 1

\* The positions of main after the mode has been selected.
AfterMode == {"install", "uninstall", "inst_copy", "gamepad"}

\* C26 -- Takeover runs for every invocation mode: a process reaches mode
\* selection only out of lock acquisition, and an acquisition run by an
\* --install or menu process that completes its lock write leaves the lock
\* holding that process's pid and, when the lock named a live process and
\* neither the probe nor the kill command failed, has killed that process.
C26_TakeoverEveryMode ==
    [][\A p \in Pids :
          /\ (proc'[p].pc = "mode" /\ proc[p].pc # "mode") =>
                proc[p].pc \in {"read_lock", "write_lock", "write_pid"}
          /\ (proc'[p].pc \in AfterMode /\ proc[p].pc \notin AfterMode) =>
                proc[p].pc = "mode"
          /\ (AcquisitionCompletes(p) /\ proc[p].mode # "greetd") =>
                /\ lockExists' /\ lockPid' = p
                /\ (hist[p].liveAtRead /\ hist[p].probeRes # "err"
                                       /\ hist[p].killRes # "err") =>
                      Terminated(proc[p].existing)]_vars

\* An --install or menu process holds the lock after killing a daemon.
C26_Witness ==
    \E p, q \in Pids :
        /\ p # q
        /\ proc[p].mode \in {"install", "menu"}
        /\ proc[p].pc = "mode"
        /\ lockExists /\ lockPid = p
        /\ proc[q].pc = "killed"

C24_DesktopNeverLost ==
    [][\A p \in Pids :
          (Leaves(p, "sw_backup") /\ CleanStart(p) /\ restarts >= 1
              /\ pointer = "game" /\ backup = "desktop") =>
              backup' = "desktop"]_vars

====
